---- MODULE Spec2Model ----
(***************************************************************************)
(* apply_dark_theme.py: a batch driver that rewrites a fixed list of UI    *)
(* source files in place by applying an ordered list of (pattern,          *)
(* replacement) rules with re.sub, writing a file back only when its text  *)
(* changed.                                                                *)
(*                                                                         *)
(* File contents, patterns and replacements are TLA+ strings; TLC treats   *)
(* a string as the sequence of its characters (Len, SubSeq, \o).           *)
(***************************************************************************)
EXTENDS Integers, Sequences, FiniteSets, TLC

(***************************************************************************)
(* Bounds of the model.                                                    *)
(***************************************************************************)
\* how many of the eight entries of files_to_process a batch run processes
NumFiles == 2
\* an input text of the pass is a concatenation of at most MaxFrags Fragments
MaxFrags == 2
\* how many times the script is run in a row in PassSpec
MaxRuns == 2
\* a failed write leaves at most MaxPartial characters of the new text on disk
MaxPartial == 1

(***************************************************************************)
(* REPLACEMENTS, lines 9-42: the ordered rule list, <<old, new>>.          *)
(* No pattern holds a regex metacharacter and no replacement holds a       *)
(* backslash, so re.sub matches and substitutes them literally.            *)
(***************************************************************************)
REPLACEMENTS ==
  << <<"className=\"min-h-screen bg-gray-50\"", "className=\"min-h-screen bg-black text-white\"">>,
     <<"<Card className=\"hover:shadow-lg", "<Card className=\"bg-white/5 backdrop-blur-sm border-white/10 hover:shadow-lg">>,
     <<"<Card>", "<Card className=\"bg-white/5 backdrop-blur-sm border-white/10\">">>,
     <<"<Card className=\"", "<Card className=\"bg-white/5 backdrop-blur-sm border-white/10 ">>,
     <<"border-gray-100", "border-white/10">>,
     <<"border-gray-200", "border-white/10">>,
     <<"divide-gray-100", "divide-white/10">>,
     <<"divide-gray-200", "divide-white/10">>,
     <<"bg-gray-50", "bg-white/5">>,
     <<"bg-gray-100", "bg-white/5">>,
     <<"bg-white", "bg-white/5">>,
     <<"bg-gray-200", "bg-white/10">>,
     <<"text-gray-900", "text-white">>,
     <<"text-gray-700", "text-gray-400">>,
     <<"text-gray-600", "text-gray-400">>,
     <<"hover:bg-gray-50", "hover:bg-white/5 transition-colors">>,
     <<"hover:bg-gray-100", "hover:bg-white/10 transition-colors">>,
     <<"className=\"bg-gray-50\"", "className=\"bg-white/5\"">>,
     <<"text-gray-500 uppercase", "text-gray-400 uppercase">> >>

NumRules == Len(REPLACEMENTS)

(***************************************************************************)
(* files_to_process, lines 73-82.                                          *)
(***************************************************************************)
FILES ==
  << "c:\\Projeto barbearia\\src\\pages\\DashboardVendas.tsx",
     "c:\\Projeto barbearia\\src\\pages\\DashboardProfissionais.tsx",
     "c:\\Projeto barbearia\\src\\pages\\DashboardServicos.tsx",
     "c:\\Projeto barbearia\\src\\pages\\DashboardClientes.tsx",
     "c:\\Projeto barbearia\\src\\pages\\DashboardAgendamentos.tsx",
     "c:\\Projeto barbearia\\src\\pages\\Agendamentos.tsx",
     "c:\\Projeto barbearia\\src\\pages\\Servicos.tsx",
     "c:\\Projeto barbearia\\src\\pages\\Profissionais.tsx" >>

Paths == {FILES[n] : n \in 1..NumFiles}

(***************************************************************************)
(* re.sub(old, new, content), line 56, for a literal non-empty pattern:    *)
(* the pattern is searched from the current position; the text before the  *)
(* leftmost match is copied, the replacement is emitted and the search     *)
(* resumes right after the match.  Emitted text is never searched.         *)
(***************************************************************************)
MatchAt(old, s, i) ==
  /\ i + Len(old) - 1 <= Len(s)
  /\ SubSeq(s, i, i + Len(old) - 1) = old

\* position of the leftmost match at or after i, 0 when there is none
Search(old, s, i) ==
  LET hits == {j \in i..Len(s) : MatchAt(old, s, j)}
  IN  IF hits = {} THEN 0
      ELSE CHOOSE j \in hits : \A h \in hits : j <= h

\* re.search(old, s) is not None
Occurs(old, s) == Search(old, s, 1) # 0

RECURSIVE ScanFrom(_, _, _, _)
ScanFrom(old, new, s, i) ==
  LET j == Search(old, s, i)
  IN  IF j = 0 THEN SubSeq(s, i, Len(s))
      ELSE SubSeq(s, i, j - 1) \o new \o ScanFrom(old, new, s, j + Len(old))

\* a replacement that stops after the first match
ReSubFirstOnly(old, new, s) ==
  LET j == Search(old, s, 1)
  IN  IF j = 0 THEN s
      ELSE SubSeq(s, 1, j - 1) \o new \o SubSeq(s, j + Len(old), Len(s))

ReSub(old, new, s) == ScanFrom(old, new, s, 1)

(***************************************************************************)
(* The loop of lines 55-56 as a function of the text read: the text after  *)
(* the first n rules, and after all of them.                               *)
(***************************************************************************)
RECURSIVE PassUpTo(_, _)
PassUpTo(c, n) ==
  IF n = 0 THEN c
  ELSE ReSub(REPLACEMENTS[n][1], REPLACEMENTS[n][2], PassUpTo(c, n - 1))

Pass(c) == PassUpTo(c, NumRules)

(***************************************************************************)
(* Input texts: every rule pattern on its own, the scenario inputs of the  *)
(* specification, and the concatenations of at most MaxFrags Fragments.    *)
(* Fragments are patterns, pieces that complete or break a pattern when    *)
(* concatenated, and text no rule touches.                                 *)
(***************************************************************************)
Patterns == {REPLACEMENTS[n][1] : n \in 1..NumRules}

Fragments ==
  { "<Card>", "<Card className=\"", "hover:shadow-lg", "className=\"",
    "className=\"min-h-screen ", "bg-gray-50", "bg-gray-100", "bg-white",
    "text-gray-900", "\"", "hover:", "bg-gray-", "50", "plain text" }

RECURSIVE Texts(_)
Texts(n) ==
  IF n = 0 THEN {""}
  ELSE LET shorter == Texts(n - 1)
       IN  shorter \cup {t \o g : t \in shorter, g \in Fragments}

Scenarios ==
  {"<div className=\"bg-gray-50 border-gray-200\">", "<Card>"}

\* texts a conversion leaves behind
Replaced == {REPLACEMENTS[n][2] : n \in 1..NumRules}

Inputs == Texts(MaxFrags) \cup Scenarios \cup Patterns \cup Replaced

\* the file contents of the batch specification
BatchContents ==
  {"plain text", "text-white", "bg-white", "text-gray-900", "<Card>"}

(***************************************************************************)
(* State.                                                                  *)
(***************************************************************************)
VARIABLES
  files_to_process,  \* the target list of the driver (line 73)
  disk,              \* path -> text of the file on disk
  unreadable,        \* paths whose open/read/decode raises (line 49-50)
  pc,                \* position of the program
  idx,               \* position of the driver's for loop in files_to_process
  content,           \* local of apply_dark_theme (line 50, 56)
  original_content,  \* local of apply_dark_theme (line 52)
  rule,              \* position of the for loop over REPLACEMENTS (line 55)
  ret,               \* value returned by apply_dark_theme
  updated,           \* the driver's counter (line 86)
  run,               \* number of the current run of the script
  status,            \* path -> status line printed for it in this run
  calls,             \* path -> calls of apply_dark_theme on it in this run
  wopens,            \* path -> times it was opened for writing in this run
  wfailed,           \* paths whose write raised in this run
  disk0,             \* the disk when this run started
  prev               \* path -> status line of the previous run

vars ==
  <<files_to_process, disk, unreadable, pc, idx, content, original_content,
    rule, ret, updated, run, status, calls, wopens, wfailed, disk0, prev>>

env == <<files_to_process, unreadable, run, disk0, prev>>
locals == <<content, original_content, rule>>

filepath == files_to_process[idx]

Fresh(d, targets, bad) ==
  /\ files_to_process = targets
  /\ disk = d
  /\ unreadable = bad
  /\ pc = "main"
  /\ idx = 1
  /\ content = ""
  /\ original_content = ""
  /\ rule = 1
  /\ ret = FALSE
  /\ updated = 0
  /\ run = 1
  /\ status = [f \in Paths |-> "none"]
  /\ calls = [f \in Paths |-> 0]
  /\ wopens = [f \in Paths |-> 0]
  /\ wfailed = {}
  /\ disk0 = d
  /\ prev = [f \in Paths |-> "none"]

\* a batch run over NumFiles targets; an unreadable path holds no text
Init ==
  \E bad \in SUBSET Paths :
    \E d \in [Paths -> BatchContents \cup {""}] :
      /\ \A f \in Paths : (f \in bad) <=> (d[f] = "")
      /\ Fresh(d, SubSeq(FILES, 1, NumFiles), bad)

\* runs over one readable target holding any of the Inputs
InitPass ==
  \E c \in Inputs :
    Fresh([f \in Paths |-> IF f = FILES[1] THEN c ELSE ""], SubSeq(FILES, 1, 1), {})

(***************************************************************************)
(* The driver, lines 86-91.                                                *)
(***************************************************************************)
\* line 87-88: the for loop calls apply_dark_theme(filepath)
Call ==
  /\ pc = "main"
  /\ idx <= Len(files_to_process)
  /\ pc' = "open"
  /\ calls' = [calls EXCEPT ![filepath] = @ + 1]
  /\ UNCHANGED <<env, disk, idx, locals, ret, updated, status, wopens, wfailed>>

\* a driver that counts every call, whatever it returned
ReturnCountsAll ==
  /\ pc = "ret"
  /\ updated' = updated + 1
  /\ idx' = idx + 1
  /\ pc' = "main"
  /\ UNCHANGED <<env, disk, locals, ret, status, calls, wopens, wfailed>>

\* line 88-89: the call returned; count it when it returned True
Return ==
  /\ pc = "ret"
  /\ updated' = IF ret THEN updated + 1 ELSE updated
  /\ idx' = idx + 1
  /\ pc' = "main"
  /\ UNCHANGED <<env, disk, locals, ret, status, calls, wopens, wfailed>>

\* line 91: the loop is exhausted, the summary is printed
Finish ==
  /\ pc = "main"
  /\ idx > Len(files_to_process)
  /\ pc' = "done"
  /\ UNCHANGED <<env, disk, idx, locals, ret, updated, status, calls, wopens, wfailed>>

(***************************************************************************)
(* apply_dark_theme, lines 44-70.                                          *)
(***************************************************************************)
\* line 49-52: the file is read
ReadOk ==
  /\ pc = "open"
  /\ filepath \notin unreadable
  /\ content' = disk[filepath]
  /\ original_content' = disk[filepath]
  /\ rule' = 1
  /\ pc' = "sub"
  /\ UNCHANGED <<env, disk, idx, ret, updated, status, calls, wopens, wfailed>>

\* a rewriter without the try/except of lines 48 and 68: the error of the
\* read ends the process with a traceback
ReadFailEscapes ==
  /\ pc = "open"
  /\ filepath \in unreadable
  /\ status' = [status EXCEPT ![filepath] = "failed"]
  /\ pc' = "crashed"
  /\ UNCHANGED <<env, disk, idx, locals, ret, updated, calls, wopens, wfailed>>

\* line 49-50 raises; line 68-70 prints the error and returns False
ReadFail ==
  /\ pc = "open"
  /\ filepath \in unreadable
  /\ status' = [status EXCEPT ![filepath] = "failed"]
  /\ ret' = FALSE
  /\ pc' = "ret"
  /\ UNCHANGED <<env, disk, idx, locals, updated, calls, wopens, wfailed>>

\* a loop that walks REPLACEMENTS from its last rule to its first
ApplyRuleReversed ==
  /\ pc = "sub"
  /\ rule <= NumRules
  /\ content' = ReSub(REPLACEMENTS[NumRules + 1 - rule][1],
                       REPLACEMENTS[NumRules + 1 - rule][2], content)
  /\ rule' = rule + 1
  /\ UNCHANGED <<env, disk, pc, idx, original_content, ret, updated, status,
                 calls, wopens, wfailed>>

\* line 55-56: one iteration of the loop over REPLACEMENTS
ApplyRule ==
  /\ pc = "sub"
  /\ rule <= NumRules
  /\ content' = ReSub(REPLACEMENTS[rule][1], REPLACEMENTS[rule][2], content)
  /\ rule' = rule + 1
  /\ UNCHANGED <<env, disk, pc, idx, original_content, ret, updated, status,
                 calls, wopens, wfailed>>

\* a rewriter that saves without comparing the texts
ChangedAlways ==
  /\ pc = "sub"
  /\ rule > NumRules
  /\ pc' = "write"
  /\ UNCHANGED <<env, disk, idx, locals, ret, updated, status, calls, wopens, wfailed>>

\* line 59: the loop is over and the text changed
Changed ==
  /\ pc = "sub"
  /\ rule > NumRules
  /\ content # original_content
  /\ pc' = "write"
  /\ UNCHANGED <<env, disk, idx, locals, ret, updated, status, calls, wopens, wfailed>>

\* a rewriter that rewrites the file with the same text when nothing changed
UnchangedRewrites ==
  /\ pc = "sub"
  /\ rule > NumRules
  /\ content = original_content
  /\ wopens' = [wopens EXCEPT ![filepath] = @ + 1]
  /\ disk' = [disk EXCEPT ![filepath] = content]
  /\ status' = [status EXCEPT ![filepath] = "unchanged"]
  /\ ret' = FALSE
  /\ pc' = "ret"
  /\ UNCHANGED <<env, idx, locals, updated, calls, wfailed>>

\* line 59, 64-66: the loop is over and the text did not change
Unchanged ==
  /\ pc = "sub"
  /\ rule > NumRules
  /\ content = original_content
  /\ status' = [status EXCEPT ![filepath] = "unchanged"]
  /\ ret' = FALSE
  /\ pc' = "ret"
  /\ UNCHANGED <<env, disk, idx, locals, updated, calls, wopens, wfailed>>

\* line 60-63: the file is opened for writing, written and closed
WriteOk ==
  /\ pc = "write"
  /\ wopens' = [wopens EXCEPT ![filepath] = @ + 1]
  /\ disk' = [disk EXCEPT ![filepath] = content]
  /\ status' = [status EXCEPT ![filepath] = "updated"]
  /\ ret' = TRUE
  /\ pc' = "ret"
  /\ UNCHANGED <<env, idx, locals, updated, calls, wfailed>>

\* line 60 raises (no permission): nothing was opened, the file is intact;
\* line 68-70 prints the error and returns False
WriteDenied ==
  /\ pc = "write"
  /\ wfailed' = wfailed \cup {filepath}
  /\ status' = [status EXCEPT ![filepath] = "failed"]
  /\ ret' = FALSE
  /\ pc' = "ret"
  /\ UNCHANGED <<env, disk, idx, locals, updated, calls, wopens>>

\* a rewriter that reports success before the text is safely written
WriteTornReported ==
  /\ pc = "write"
  /\ \E n \in 0..MaxPartial :
       /\ n < Len(content)
       /\ disk' = [disk EXCEPT ![filepath] = SubSeq(content, 1, n)]
  /\ wopens' = [wopens EXCEPT ![filepath] = @ + 1]
  /\ wfailed' = wfailed \cup {filepath}
  /\ status' = [status EXCEPT ![filepath] = "updated"]
  /\ ret' = TRUE
  /\ pc' = "ret"
  /\ UNCHANGED <<env, idx, locals, updated, calls>>

\* line 60 truncated the file and line 61 or the close raises (disk full):
\* a proper prefix of the new text is left; line 68-70 returns False
WriteTorn ==
  /\ pc = "write"
  /\ \E n \in 0..MaxPartial :
       /\ n < Len(content)
       /\ disk' = [disk EXCEPT ![filepath] = SubSeq(content, 1, n)]
  /\ wopens' = [wopens EXCEPT ![filepath] = @ + 1]
  /\ wfailed' = wfailed \cup {filepath}
  /\ status' = [status EXCEPT ![filepath] = "failed"]
  /\ ret' = FALSE
  /\ pc' = "ret"
  /\ UNCHANGED <<env, idx, locals, updated, calls>>

(***************************************************************************)
(* The script is started again on the files the previous run left.         *)
(***************************************************************************)
Rerun ==
  /\ pc = "done"
  /\ run < MaxRuns
  /\ run' = run + 1
  /\ prev' = status
  /\ disk0' = disk
  /\ pc' = "main"
  /\ idx' = 1
  /\ content' = ""
  /\ original_content' = ""
  /\ rule' = 1
  /\ ret' = FALSE
  /\ updated' = 0
  /\ status' = [f \in Paths |-> "none"]
  /\ calls' = [f \in Paths |-> 0]
  /\ wopens' = [f \in Paths |-> 0]
  /\ wfailed' = {}
  /\ UNCHANGED <<files_to_process, disk, unreadable>>

(***************************************************************************)
(* Specifications.                                                         *)
(***************************************************************************)
Next ==
  \/ Call
  \/ Return
  \/ Finish
  \/ ReadOk
  \/ ReadFail
  \/ ApplyRule
  \/ Changed
  \/ Unchanged
  \/ WriteOk
  \/ WriteDenied
  \/ WriteTorn

\* one run of the script over NumFiles targets, reads and writes may fail
Spec == Init /\ [][Next]_vars

\* the script is one sequential process that the interpreter keeps running;
\* every read and write returns or raises
FairSpec == Spec /\ WF_vars(Next)

NextPass ==
  \/ Call
  \/ Return
  \/ Finish
  \/ ReadOk
  \/ ApplyRule
  \/ Changed
  \/ Unchanged
  \/ WriteOk
  \/ Rerun

\* MaxRuns runs of the script over one target, no read or write fails
PassSpec == InitPass /\ [][NextPass]_vars

(***************************************************************************)
(* Properties.                                                             *)
(***************************************************************************)
Targets == {files_to_process[n] : n \in 1..Len(files_to_process)}

LoopDone == pc = "sub" /\ rule > NumRules

CountUpdated == Cardinality({f \in Targets : status[f] = "updated"})

\* C1: a pass is idempotent: a run of the script over a file that the
\* previous run converted finds nothing to change, performs no write and
\* reports it unchanged.
Idempotence ==
  (pc = "done" /\ run > 1) =>
    \A f \in Targets :
      prev[f] = "updated" =>
        /\ status[f] = "unchanged"
        /\ wopens[f] = 0
        /\ disk[f] = disk0[f]

\* C2: one pass over <div className="bg-gray-50 border-gray-200"> produces
\* exactly <div className="bg-white/5 border-white/10">.
ScenarioDiv ==
  (LoopDone /\ original_content = "<div className=\"bg-gray-50 border-gray-200\">")
    => content = "<div className=\"bg-white/5 border-white/10\">"

\* C3: one pass over <Card> produces exactly
\* <Card className="bg-white/5 backdrop-blur-sm border-white/10">, and a pass
\* over that output leaves it as it is.
ScenarioCard ==
  LET injected == "<Card className=\"bg-white/5 backdrop-blur-sm border-white/10\">"
  IN  (LoopDone /\ original_content \in {"<Card>", injected})
        => content = injected

\* C4: a target that cannot be read is reported failed and never written;
\* every other target ends with the result and the text that its own initial
\* text (and the fate of its own write) decides, whatever the other targets
\* are; the final count is the number of targets reported updated.
IsolationOfFailure ==
  /\ \A f \in unreadable : wopens[f] = 0 /\ disk[f] = disk0[f]
  /\ pc = "done" =>
       /\ updated = CountUpdated
       /\ \A f \in Targets :
            /\ f \in unreadable => status[f] = "failed"
            /\ (f \notin unreadable /\ Pass(disk0[f]) = disk0[f]) =>
                 status[f] = "unchanged" /\ disk[f] = disk0[f]
            /\ (f \notin unreadable /\ Pass(disk0[f]) # disk0[f] /\ f \notin wfailed) =>
                 status[f] = "updated" /\ disk[f] = Pass(disk0[f])
            /\ (f \notin unreadable /\ Pass(disk0[f]) # disk0[f] /\ f \in wfailed) =>
                 status[f] = "failed"

IsolationWitness ==
  /\ pc = "done"
  /\ FILES[1] \in unreadable
  /\ status[FILES[1]] = "failed"
  /\ status[FILES[2]] = "updated"
  /\ updated = 1

\* C5: a file whose text holds no occurrence of any rule pattern is left
\* with the same text, is never opened for writing and is reported
\* unchanged (the call returns False and is not counted).
NoOpPreservation ==
  \A f \in Targets :
    \/ calls[f] = 0
    \/ /\ disk[f] = disk0[f]
       /\ wopens[f] = 0
       /\ status[f] \in {"none", "unchanged"}
       /\ (pc \in {"main", "done"}) => status[f] = "unchanged"
       /\ (pc = "ret" /\ f = filepath) => status[f] = "unchanged" /\ ~ret
    \/ \E n \in 1..NumRules : Occurs(REPLACEMENTS[n][1], disk0[f])

NoOpWitness ==
  /\ pc = "done"
  /\ run = 1
  /\ disk0[FILES[1]] = "bg-gray-hover:"
  /\ status[FILES[1]] = "unchanged"
  /\ updated = 0

\* C6: for a readable file the rewriter opens the file for writing if and
\* only if the text after all the rules differs from the text read; a write
\* that succeeds leaves exactly the transformed text and the call returns
\* True (updated); equal texts mean no write, the same file and False
\* (unchanged).
WriteOnlyOnChange ==
  (pc = "ret" /\ filepath \notin unreadable) =>
    LET f == filepath
    IN  /\ rule = NumRules + 1
        /\ original_content = disk0[f]
        /\ (wopens[f] > 0 \/ f \in wfailed) <=> content # original_content
        /\ (content # original_content /\ f \notin wfailed) =>
             /\ disk[f] = content
             /\ wopens[f] = 1
             /\ status[f] = "updated"
             /\ ret
        /\ content = original_content =>
             /\ disk[f] = disk0[f]
             /\ wopens[f] = 0
             /\ status[f] = "unchanged"
             /\ ~ret

WriteWitness ==
  /\ pc = "ret"
  /\ status[filepath] = "updated"
  /\ ret
  /\ disk0[filepath] = "bg-white"
  /\ disk[filepath] = "bg-white/5"

\* C7: the driver calls the rewriter on every target exactly once, in list
\* order, one file being finished before the next is touched; no read or
\* write error leaves the per-file boundary, and the run always reaches the
\* final summary with every target attempted.
SequentialInv ==
  /\ pc \in {"main", "open", "sub", "write", "ret", "done"}
  /\ idx \in 1..(Len(files_to_process) + 1)
  /\ pc = "done" => idx = Len(files_to_process) + 1
  /\ pc \in {"open", "sub", "write", "ret"} => idx <= Len(files_to_process)
  /\ \A n \in 1..Len(files_to_process) :
       LET f == files_to_process[n]
       IN  /\ n < idx => calls[f] = 1 /\ status[f] # "none"
           /\ (n = idx /\ pc # "main") => calls[f] = 1
           /\ (n > idx \/ (n = idx /\ pc = "main")) =>
                /\ calls[f] = 0
                /\ status[f] = "none"
                /\ wopens[f] = 0
                /\ disk[f] = disk0[f]

FullSequentialPass == []SequentialInv /\ <>(pc = "done")

SequentialWitness ==
  /\ pc = "done"
  /\ FILES[1] \in unreadable
  /\ FILES[2] \in wfailed
  /\ calls[FILES[1]] = 1
  /\ calls[FILES[2]] = 1

(***************************************************************************)
(* What one scan of a rule is, stated on the text before and after it:     *)
(* Hits are the positions where the pattern occurs in the text before;     *)
(* Taken are the leftmost non-overlapping ones (a hit is taken unless a    *)
(* taken hit to its left covers it); the text after is the text before     *)
(* with each taken occurrence exchanged for the replacement and every      *)
(* other character kept, in order.                                         *)
(***************************************************************************)
Hits(old, s) == {j \in 1..Len(s) : MatchAt(old, s, j)}

Taken(old, s) ==
  CHOOSE T \in SUBSET Hits(old, s) :
    \A j \in Hits(old, s) :
      (j \in T) <=> (\A k \in T : k < j => k + Len(old) <= j)

IsScanOf(old, new, s, r) ==
  LET T == Taken(old, s)
      grow == Len(new) - Len(old)
      at(j) == j + grow * Cardinality({k \in T : k < j})
  IN  /\ Len(r) = Len(s) + grow * Cardinality(T)
      /\ \A k \in T : SubSeq(r, at(k), at(k) + Len(new) - 1) = new
      /\ \A j \in 1..Len(s) :
           (\A k \in T : j < k \/ j >= k + Len(old)) =>
             SubSeq(r, at(j), at(j)) = SubSeq(s, j, j)

\* C8: the loop starts from the text read and each of its steps applies the
\* next rule of REPLACEMENTS, in declared order, to the current text in one
\* scan (leftmost, non-overlapping occurrences; the replacement text is not
\* scanned again by that rule); the text only changes by such steps, so the
\* result is the left fold of the rules over the text read.
OrderedSingleScan ==
  /\ [](pc = "sub" /\ rule = 1 => content = original_content)
  /\ [](LoopDone => content = Pass(original_content))
  /\ [][(pc = "sub" /\ pc' = "sub") =>
          /\ rule <= NumRules
          /\ rule' = rule + 1
          /\ original_content' = original_content
          /\ IsScanOf(REPLACEMENTS[rule][1], REPLACEMENTS[rule][2], content, content')]_vars
  /\ [][content' # content => pc \in {"open", "sub", "done"}]_vars

\* rule 3's output was matched by rules 4 and 11, and rule 11's own output
\* still holds its pattern
CascadeWitness ==
  /\ pc = "sub"
  /\ rule = 12
  /\ original_content = "<Card>"
  /\ content = "<Card className=\"bg-white/5/5 backdrop-blur-sm border-white/10 bg-white/5/5 backdrop-blur-sm border-white/10\">"
  /\ Occurs(REPLACEMENTS[11][1], content)

\* C9: when the write of a changed text fails the rewriter reports the
\* target failed and returns False, the target is not counted as updated
\* and the driver goes on to the remaining targets.  (That the file may be
\* left different from the original is what TornWitness reaches.)
WriteFailureHandling ==
  /\ \A f \in wfailed :
       /\ status[f] = "failed"
       /\ (pc = "ret" /\ filepath = f) => ~ret
  /\ updated <= CountUpdated
  /\ pc \in {"main", "done"} => updated = CountUpdated
  /\ pc \in {"main", "open", "sub", "write", "ret", "done"}
  /\ pc = "done" => \A f \in Targets : status[f] # "none"

TornWitness ==
  /\ pc = "done"
  /\ FILES[1] \in wfailed
  /\ disk0[FILES[1]] = "bg-white"
  /\ disk[FILES[1]] = "b"
  /\ status[FILES[2]] = "updated"
  /\ updated = 1

\* C10: whenever the loop is about to apply rule 16 (hover:bg-gray-50),
\* 17 (hover:bg-gray-100) or 18 (className="bg-gray-50") the current text
\* holds no bg-gray-50 and no bg-gray-100, so none of the three matches, and
\* a pass never adds an occurrence of transition-colors.
ShadowedRules ==
  pc = "sub" =>
    /\ rule \in {16, 17, 18} =>
         /\ ~Occurs("bg-gray-50", content)
         /\ ~Occurs("bg-gray-100", content)
         /\ ~Occurs(REPLACEMENTS[rule][1], content)
    /\ Cardinality(Hits("transition-colors", content))
         = Cardinality(Hits("transition-colors", original_content))

ShadowedWitness ==
  /\ pc = "sub"
  /\ rule = 17
  /\ original_content = "hover:bg-gray-50"
  /\ content = "hover:bg-white/5/5"

====
